---- MODULE Spec2Model ----
(***************************************************************************)
(* Model of fyers_oauth.py: the /login and /fyers/callback handlers, the   *)
(* process-wide pending-state table `states`, the outbound POST to the     *)
(* token endpoint and the token files written under data/tokens.           *)
(*                                                                         *)
(* A handler runs without interruption except at `await client.post`,      *)
(* where the callback is suspended until the provider's reply (or a        *)
(* transport failure) arrives; other requests are handled meanwhile.       *)
(***************************************************************************)
EXTENDS Integers, Sequences, FiniteSets, TLC

\* ------------------------------------------------------------------ bounds

\* number of /login requests served (each draws a fresh uuid4)
MaxLogins == 2
\* datetime.now() reads one of the seconds 0..MaxTime
MaxTime == 1

\* ------------------------------------------------------------------ values

\* Python's None, for the string-valued parameters and fields
None == "None"

UuidPool == <<"u1", "u2", "u3", "u4">>
SecretPool == <<"a", "b", "c", "d">>

\* A string of a state is a sequence of symbols: a uuid, a secret, or the colon.
Colon == ":"
\* the strings str(uuid.uuid4()) returns, in the order it returns them
Ids == {<<UuidPool[k]>> : k \in 1..MaxLogins}
\* the strings secrets.token_urlsafe(32) returns, in the order it returns them
Secrets == {<<SecretPool[k]>> : k \in 1..MaxLogins}
\* the `state` query parameter when it is not given (Query(None))
AbsentState == <<None>>

\* f"{state_id}:{state_value}"
FormatState(state_id, state_value) == state_id \o <<Colon>> \o state_value

\* str.split(":", 1): the position of the first colon, 0 when there is none
RECURSIVE FirstColon(_, _)
FirstColon(str, k) ==
    IF k > Len(str) THEN 0
    ELSE IF str[k] = Colon THEN k
    ELSE FirstColon(str, k + 1)

\* state.split(":", 1) has two parts exactly when the string holds a colon;
\* otherwise the unpacking into (state_id, state_value) raises ValueError
SplitOk(str) == FirstColon(str, 1) # 0
SplitId(str) == SubSeq(str, 1, FirstColon(str, 1) - 1)
SplitValue(str) == SubSeq(str, FirstColon(str, 1) + 1, Len(str))

\* Python truthiness of an optional string parameter
Truthy(x) == x # None /\ x # ""
\* Python truthiness of the optional state string
TruthyState(str) == str # AbsentState /\ str # <<>>

\* ---------------------------------------------------------------- requests

\* the state strings a browser (or an attacker) may send to the callback
StateInputs ==
    {AbsentState, <<>>}
    \cup Ids
    \cup {i \o <<Colon>> : i \in Ids}
    \cup {FormatState(i, s) : i \in Ids, s \in Secrets}
    \cup {FormatState(<<UuidPool[k]>>, <<SecretPool[k]>>) \o <<Colon>> : k \in 1..MaxLogins}

\* (code, auth_code) as the query string carries them
CodeInputs == {<<None, None>>, <<"", "">>, <<"c1", None>>, <<"c1", "">>,
               <<None, "c2">>, <<"c1", "c2">>}
\* (error, error_description) as the provider sends them
ErrorInputs == {<<None, None>>, <<"access_denied", "user denied">>}

Request(code, auth_code, state, error, error_description) ==
    [code |-> code, auth_code |-> auth_code, state |-> state,
     error |-> error, error_description |-> error_description]

NoRequest == Request(None, None, AbsentState, None, None)

\* ----------------------------------------------------------------- replies

\* response.json(): a JSON object with the keys it holds, a JSON value that
\* is no object, or a body that is no JSON at all
JsonObject(s, access_token, message) ==
    [kind |-> "object", s |-> s, access_token |-> access_token, message |-> message]
NotJson == [kind |-> "not_json", s |-> None, access_token |-> None, message |-> None]
JsonArray == [kind |-> "array", s |-> None, access_token |-> None, message |-> None]
NoBody == [kind |-> "none", s |-> None, access_token |-> None, message |-> None]
\* a token file left cut short by a failed json.dump
Truncated == [kind |-> "truncated", s |-> None, access_token |-> None, message |-> None]

Bodies ==
    {NotJson, JsonArray}
    \cup {JsonObject("ok", t, None) : t \in {None, "", "T1", "T2"}}
    \cup {JsonObject(s, None, m) : s \in {None, "error"}, m \in {None, "invalid code"}}
    \cup {JsonObject("error", "T1", None)}

\* what `await client.post` ends with: an exception, or a response
NoReply == [transport |-> "none", status |-> 0, body |-> NoBody]
Replies ==
    {[transport |-> "failed", status |-> 0, body |-> NoBody]}
    \cup {[transport |-> "ok", status |-> st, body |-> b] : st \in {200, 401}, b \in Bodies}

\* the outcome of open(token_path, "w") and json.dump
WriteOutcomes == {"ok", "open_fails", "dump_fails"}

\* ------------------------------------------------------------------- pages

\* get_base_html(title, content, error, success); the content is kept as its
\* heading, its fixed text, the values interpolated into it and the response
\* body it dumps
get_base_html(title, heading, text, shown, data, error, success) ==
    [kind |-> "html", title |-> title, heading |-> heading, text |-> text,
     shown |-> shown, data |-> data, error |-> error, success |-> success]

\* RedirectResponse(auth_url): the url carries the composite state
RedirectResponse(state) ==
    [kind |-> "redirect", title |-> None, heading |-> None, text |-> None,
     shown |-> state, data |-> NoBody, error |-> <<>>, success |-> <<>>]

\* no response is being returned
NoResponse ==
    [kind |-> "none", title |-> None, heading |-> None, text |-> None,
     shown |-> <<>>, data |-> NoBody, error |-> <<>>, success |-> <<>>]

\* a page that reports a provider error without saying which
ProviderErrorPage_Generic(error, error_description) ==
    get_base_html("Authentication Error", "Authentication Error",
                  "Fyers returned an error:", <<>>, NoBody,
                  <<"Fyers error">>, <<>>)

\* the page of `if error:`, showing f"{error}: {error_description}"
ProviderErrorPage(error, error_description) ==
    get_base_html("Authentication Error", "Authentication Error",
                  "Fyers returned an error:", <<error, error_description>>, NoBody,
                  <<"Fyers error: ", error>>, <<>>)

MissingStatePage ==
    get_base_html("Error", "Error", "Missing state parameter", <<>>, NoBody,
                  <<"Missing state parameter">>, <<>>)

InvalidStatePage ==
    get_base_html("Error", "Security Error",
                  "Invalid state parameter. This could be a CSRF attempt.", <<>>, NoBody,
                  <<"Security validation failed">>, <<>>)

InvalidStateFormatPage ==
    get_base_html("Error", "Error", "Invalid state format", <<>>, NoBody,
                  <<"Invalid state format">>, <<>>)

MissingCodePage ==
    get_base_html("Error", "Error", "Missing authorization code", <<>>, NoBody,
                  <<"Missing authorization code">>, <<>>)

SuccessPage(access_token, response_data, token_path) ==
    get_base_html("Authentication Successful", "Authentication Successful",
                  "Your access token has been retrieved and saved successfully!",
                  <<access_token, ToString(token_path[2])>>, response_data,
                  <<>>, <<"Authentication successful!">>)

ApiErrorPage(error_message, response_data) ==
    get_base_html("API Error", "API Error", "Failed to retrieve access token:",
                  <<error_message>>, response_data,
                  <<"API error: ", error_message>>, <<>>)

\* a handler without its last `except`: the exception leaves the handler
\* and no page is rendered
ExceptionPage_Unhandled(exc) ==
    [kind |-> "fault", title |-> None, heading |-> None, text |-> None,
     shown |-> <<exc>>, data |-> NoBody, error |-> <<>>, success |-> <<>>]

\* the page of the handler's last `except Exception as e`; `exc` is str(e)
ExceptionPage(exc) ==
    get_base_html("Error", "Error",
                  "An error occurred while processing your authentication:",
                  <<exc>>, NoBody, <<"Failed to generate access token">>, <<>>)

NoAccessTokenError == "Authentication succeeded but no access token was returned"

\* ----------------------------------------------------------- configuration

\* the environment of the process after load_dotenv(): each variable is
\* unset (None), set to the empty string, or set to the value of the
\* deployment; the client id and the client secret may stand under either
\* of their two names
Envs ==
    [APP_ID : {None, "", "app"}, BROKER_API_KEY : {None, "app"},
     SECRET_KEY : {None, "", "key"}, BROKER_API_SECRET : {None, "key"},
     REDIRECT_URI : {None, "", "uri"}]

\* os.getenv(name, default): the default only when the variable is unset
getenv(env, name, default) == IF env[name] # None THEN env[name] ELSE default

\* APP_ID, SECRET_KEY, REDIRECT_URI as the module reads them
LoadConfig(env) ==
    [APP_ID |-> getenv(env, "APP_ID", getenv(env, "BROKER_API_KEY", None)),
     SECRET_KEY |-> getenv(env, "SECRET_KEY", getenv(env, "BROKER_API_SECRET", None)),
     REDIRECT_URI |-> getenv(env, "REDIRECT_URI", None)]

\* the module globals before they are assigned
NoConfig == [APP_ID |-> None, SECRET_KEY |-> None, REDIRECT_URI |-> None]

\* a check that takes a variable set to the empty string for a setting
ConfigMissing_NoneOnly(cfg) ==
    cfg.APP_ID = None \/ cfg.SECRET_KEY = None \/ cfg.REDIRECT_URI = None

\* `if not APP_ID or not SECRET_KEY or not REDIRECT_URI`
ConfigMissing(cfg) ==
    ~Truthy(cfg.APP_ID) \/ ~Truthy(cfg.SECRET_KEY) \/ ~Truthy(cfg.REDIRECT_URI)

\* hashlib.sha256(data).hexdigest(): the digest is kept as the term
\* sha256(data), equal for equal data and different for different data
Sha256Hex(data) == <<"sha256">> \o data

\* a checksum of the two settings run together, without the colon
AppIdHash_NoSeparator(cfg) == Sha256Hex(<<cfg.APP_ID, cfg.SECRET_KEY>>)

\* checksum_input = f"{APP_ID}:{SECRET_KEY}";
\* app_id_hash = hashlib.sha256(checksum_input.encode('utf-8')).hexdigest()
AppIdHash(cfg) == Sha256Hex(<<cfg.APP_ID, Colon, cfg.SECRET_KEY>>)

\* the JSON body of the POST to the token endpoint
Payload(grant_type, app_id_hash, actual_code) ==
    [grant_type |-> grant_type, appIdHash |-> app_id_hash, code |-> actual_code]
NoPayload == Payload(None, <<>>, None)

\* ------------------------------------------------------------------- state

VARIABLES
    app,        \* the process: "importing" the module, "failed" at its
                \* import, or "serving"; the FastAPI application and the
                \* table `states` exist only when it is "serving"
    config,     \* the module globals APP_ID, SECRET_KEY, REDIRECT_URI
    states,     \* the pending-state table: state_id -> [value]
    tokens,     \* the files of data/tokens: timestamp -> the body written
    handlers,   \* the callbacks suspended at `await client.post`
    cur,        \* the request whose response is being returned, with the
                \* reply and the file outcome its callback met
    resp,       \* the response being returned, NoResponse between requests
    issued,     \* history: every state ever issued, state_id -> value
    validated,  \* history: state_id -> callbacks that passed its validation
    posts       \* history: POSTs sent to the token endpoint

vars == <<app, config, states, tokens, handlers, cur, resp, issued, validated,
         posts>>

\* a callback is suspended only after it took a state out of the table, so
\* no more callbacks are suspended at a time than states were issued; the
\* suspended callback is kept in the slot of the state it took
Slots == 1..MaxLogins

\* the readings of datetime.now(): the wall clock, which two readings within
\* one second find equal and which an adjustment may set back
Times == 0..MaxTime

IdleSlot == [pc |-> "idle", req |-> NoRequest, sent |-> 0, payload |-> NoPayload]

Call(op, request, sent, reply, write) ==
    [op |-> op, req |-> request, sent |-> sent, reply |-> reply, write |-> write]
NoCall == Call("none", NoRequest, 0, NoReply, "none")

\* f"token_{timestamp}.json" with
\* timestamp = datetime.now().strftime("%Y%m%d_%H%M%S")
TokenFilename(time) == <<"token_", time, ".json">>

Init ==
    /\ app = "importing"
    /\ config = NoConfig
    /\ states = <<>>
    /\ tokens = <<>>
    /\ handlers = [h \in Slots |-> IdleSlot]
    /\ cur = NoCall
    /\ resp = NoResponse
    /\ issued = <<>>
    /\ validated = <<>>
    /\ posts = 0

\* d[key] = value on a dict
DictSet(d, key, value) ==
    [k \in DOMAIN d \cup {key} |-> IF k = key THEN value ELSE d[k]]

\* ---------------------------------------------------------------- start-up

\* the import of the module: the settings are read and checked; when one is
\* missing the import raises and the process ends, otherwise `states` and
\* the application are created and requests are served
startup(env) ==
    /\ app = "importing"
    /\ config' = LoadConfig(env)
    /\ app' = IF ConfigMissing(LoadConfig(env)) THEN "failed" ELSE "serving"
    /\ UNCHANGED <<states, tokens, handlers, cur, resp, issued, validated, posts>>

\* ------------------------------------------------------------------ /login

\* generate_state(): states[state_id] = {"value": ..., "created_at": ...};
\* created_at is stored and never read, and the entry is kept by its value
generate_state(state_id, state_value) ==
    DictSet(states, state_id, [value |-> state_value])

\* uuid.uuid4(): a string no earlier call returned
NextUuid == <<UuidPool[Cardinality(DOMAIN issued) + 1]>>

\* secrets.token_urlsafe(32): 32 random bytes, a string no earlier call returned
NextSecret == <<SecretPool[Cardinality(DOMAIN issued) + 1]>>

login ==
    /\ app = "serving"
    /\ resp = NoResponse
    /\ Cardinality(DOMAIN issued) < MaxLogins
    /\ LET state_id == NextUuid
           state_value == NextSecret IN
        /\ states' = generate_state(state_id, state_value)
        /\ issued' = DictSet(issued, state_id, state_value)
        /\ validated' = DictSet(validated, state_id, 0)
        /\ resp' = RedirectResponse(FormatState(state_id, state_value))
        /\ cur' = Call("login", NoRequest, 0, NoReply, "none")
    /\ UNCHANGED <<app, config, tokens, handlers, posts>>

\* --------------------------------------------------------- /fyers/callback

\* an early return that first removes the entry of the state presented
Return_Consume(request, page) ==
    /\ resp' = page
    /\ cur' = Call("callback", request, 0, NoReply, "none")
    /\ states' = [k \in DOMAIN states \ {SplitId(request.state)} |-> states[k]]
    /\ UNCHANGED <<app, config, tokens, handlers, issued, validated, posts>>

\* a callback that returns `page` before it reaches the state table
Return(request, page) ==
    /\ resp' = page
    /\ cur' = Call("callback", request, 0, NoReply, "none")
    /\ UNCHANGED <<app, config, states, tokens, handlers, issued, validated, posts>>

\* a validation that looks the identifier up and never compares the secret
StateIsValid_IdOnly(state_id, state_value) == state_id \in DOMAIN states

\* the negation of
\* `state_id not in states or states[state_id]["value"] != state_value`
StateIsValid(state_id, state_value) ==
    /\ state_id \in DOMAIN states
    /\ states[state_id].value = state_value

\* a callback that forgets to remove the state it used
Pop_Keep(state_id) == states

\* a clean-up that empties the whole table
Pop_Clear(state_id) == <<>>

\* states.pop(state_id, None)
Pop(state_id) == [k \in DOMAIN states \ {state_id} |-> states[k]]

\* a choice that prefers `code` when both parameters are given
ActualCode_PreferCode(code, auth_code) == IF Truthy(code) THEN code ELSE auth_code

\* actual_code = auth_code if auth_code else code
ActualCode(code, auth_code) == IF Truthy(auth_code) THEN auth_code ELSE code

\* the slot of the callback that took state_id out of the table
SlotOf(state_id) == CHOOSE h \in Slots : <<UuidPool[h]>> = state_id

\* `await client.post(url, headers=headers, json=payload)`: the POST leaves
\* and the callback is suspended until its reply
SendPost(request, payload) ==
    /\ handlers[SlotOf(SplitId(request.state))].pc = "idle"
    /\ handlers' = [handlers EXCEPT ![SlotOf(SplitId(request.state))] =
                        [pc |-> "awaiting", req |-> request, sent |-> 1,
                         payload |-> payload]]
    /\ posts' = posts + 1
    /\ resp' = NoResponse
    /\ cur' = NoCall

\* a callback that checks the authorization code before it removes the
\* state, so that a callback without code leaves the state pending
callback_CodeFirst(code, auth_code, state, error, error_description) ==
    LET request == Request(code, auth_code, state, error, error_description) IN
    /\ app = "serving"
    /\ resp = NoResponse
    /\ IF Truthy(error)
         THEN Return(request, ProviderErrorPage(error, error_description))
       ELSE IF ~TruthyState(state)
         THEN Return(request, MissingStatePage)
       ELSE IF ~SplitOk(state)
         THEN Return(request, InvalidStateFormatPage)
       ELSE IF ~StateIsValid(SplitId(state), SplitValue(state))
         THEN Return(request, InvalidStatePage)
       ELSE IF ~Truthy(ActualCode(code, auth_code))
         THEN Return(request, MissingCodePage)
       ELSE
         /\ states' = Pop(SplitId(state))
         /\ validated' = [validated EXCEPT ![SplitId(state)] = @ + 1]
         /\ SendPost(request,
                     Payload("authorization_code", AppIdHash(config),
                             ActualCode(code, auth_code)))
         /\ UNCHANGED <<app, config, tokens, issued>>

\* the callback from its entry to its first return or to the POST
callback(code, auth_code, state, error, error_description) ==
    LET request == Request(code, auth_code, state, error, error_description) IN
    /\ app = "serving"
    /\ resp = NoResponse
    /\ IF Truthy(error)
         THEN Return(request, ProviderErrorPage(error, error_description))
       ELSE IF ~TruthyState(state)
         THEN Return(request, MissingStatePage)
       ELSE IF ~SplitOk(state)
         THEN Return(request, InvalidStateFormatPage)
       ELSE IF ~StateIsValid(SplitId(state), SplitValue(state))
         THEN Return(request, InvalidStatePage)
       ELSE
         /\ states' = Pop(SplitId(state))
         /\ validated' = [validated EXCEPT ![SplitId(state)] = @ + 1]
         /\ IF ~Truthy(ActualCode(code, auth_code))
              THEN /\ resp' = MissingCodePage
                   /\ cur' = Call("callback", request, 0, NoReply, "none")
                   /\ UNCHANGED <<handlers, posts>>
              ELSE SendPost(request,
                            Payload("authorization_code", AppIdHash(config),
                                    ActualCode(code, auth_code)))
         /\ UNCHANGED <<app, config, tokens, issued>>

\* the suspended callback h, resumed by `reply`, returns `page`
Finish(h, page, reply, write) ==
    /\ resp' = page
    /\ cur' = Call("callback", handlers[h].req, handlers[h].sent, reply, write)
    /\ handlers' = [handlers EXCEPT ![h] = IdleSlot]
    /\ UNCHANGED <<app, config, states, issued, validated, posts>>

\* a handler that sends the POST again when the transport failed
OnTransportFailure_Retry(h, reply) ==
    /\ handlers' = [handlers EXCEPT ![h].sent = @ + 1]
    /\ posts' = posts + 1
    /\ UNCHANGED <<app, config, states, tokens, cur, resp, issued, validated>>

\* a POST without a timeout to a provider that never answers: the callback
\* stays at its `await` for ever
OnTransportFailure_Hang(h, reply) ==
    /\ handlers' = [handlers EXCEPT ![h].pc = "hung"]
    /\ UNCHANGED <<app, config, states, tokens, cur, resp, issued, validated, posts>>

\* a handler that puts the state back into the table when the transport
\* failed, so that the same callback can be repeated
OnTransportFailure_Restore(h, reply) ==
    /\ resp' = ExceptionPage("transport error")
    /\ cur' = Call("callback", handlers[h].req, handlers[h].sent, reply, "none")
    /\ handlers' = [handlers EXCEPT ![h] = IdleSlot]
    /\ states' = DictSet(states, SplitId(handlers[h].req.state),
                         [value |-> SplitValue(handlers[h].req.state)])
    /\ UNCHANGED <<app, config, tokens, issued, validated, posts>>

\* client.post raised (connection refused, timeout, TLS error): the handler's
\* `except Exception` returns the error page
OnTransportFailure(h, reply) ==
    /\ Finish(h, ExceptionPage("transport error"), reply, "none")
    /\ UNCHANGED tokens

\* response_data.get('message', 'Authentication failed. Please try again.')
ErrorMessage(response_data) ==
    IF response_data.message # None THEN response_data.message
    ELSE "Authentication failed. Please try again."

\* a check that takes an empty access_token for a token
AccessTokenMissing_NoneOnly(response_data) == response_data.access_token = None

\* `if not access_token`
AccessTokenMissing(response_data) == ~Truthy(response_data.access_token)

\* with open(token_path, "w") as f: json.dump(response_data, f, indent=4)
WriteToken(response_data, time, outcome) ==
    IF outcome = "open_fails" THEN tokens
    ELSE DictSet(tokens, TokenFilename(time),
                 IF outcome = "ok" THEN response_data ELSE Truncated)

\* a test of success that looks at the HTTP status alone
IsSuccess_StatusOnly(status, response_data) == status = 200

\* response.status_code == 200 and response_data.get('s') == 'ok'
IsSuccess(status, response_data) == status = 200 /\ response_data.s = "ok"

\* the branch of a successful reply: the token check, then the file written
\* under the clock's reading `time` with `outcome`, then the page
OnSuccess(h, reply) ==
    IF AccessTokenMissing(reply.body)
      THEN /\ Finish(h, ExceptionPage(NoAccessTokenError), reply, "none")
           /\ UNCHANGED tokens
      ELSE \E time \in Times, outcome \in WriteOutcomes :
           /\ tokens' = WriteToken(reply.body, time, outcome)
           /\ IF outcome = "ok"
                THEN Finish(h, SuccessPage(reply.body.access_token, reply.body,
                                           TokenFilename(time)), reply, outcome)
                ELSE Finish(h, ExceptionPage("write error"), reply, outcome)

\* the branch of a reply that is no success
OnApiError(h, reply) ==
    /\ Finish(h, ApiErrorPage(ErrorMessage(reply.body), reply.body), reply, "none")
    /\ UNCHANGED tokens

\* the callback from the reply of the POST to its return
callback_reply(h, reply) ==
    /\ app = "serving"
    /\ resp = NoResponse
    /\ handlers[h].pc = "awaiting"
    /\ IF reply.transport = "failed"
         THEN OnTransportFailure(h, reply)
       ELSE IF reply.body.kind = "not_json"
         THEN Finish(h, ExceptionPage("json decode error"), reply, "none")
              /\ UNCHANGED tokens
       ELSE IF reply.body.kind # "object"
         THEN Finish(h, ExceptionPage("attribute error"), reply, "none")
              /\ UNCHANGED tokens
       ELSE IF IsSuccess(reply.status, reply.body)
         THEN OnSuccess(h, reply)
       ELSE OnApiError(h, reply)

\* ------------------------------------------------------------- environment

\* the response is sent and the request is over
Deliver ==
    /\ resp # NoResponse
    /\ resp' = NoResponse
    /\ cur' = NoCall
    /\ UNCHANGED <<app, config, states, tokens, handlers, issued, validated, posts>>

Next ==
    \/ \E env \in Envs : startup(env)
    \/ login
    \/ \E c \in CodeInputs, state \in StateInputs, e \in ErrorInputs :
          callback(c[1], c[2], state, e[1], e[2])
    \/ \E h \in Slots, reply \in Replies : callback_reply(h, reply)
    \/ Deliver

Spec == Init /\ [][Next]_vars

\* The POST of every suspended callback ends: httpx.AsyncClient() carries
\* the library's default timeout, so a provider that hangs makes client.post
\* raise, and the event loop resumes a coroutine whose await has ended; the
\* resumption is possible again and again between the other requests, hence
\* strong fairness.  The server sends every response it was handed.
FairSpec ==
    /\ Spec
    /\ \A h \in Slots : SF_vars(\E reply \in Replies : callback_reply(h, reply))
    /\ WF_vars(Deliver)

\* ------------------------------------------------------- reading a step

\* the step is a callback that returned before any POST, with request r
EntryReturn(r) ==
    /\ resp = NoResponse
    /\ resp' # NoResponse
    /\ handlers' = handlers
    /\ cur' = Call("callback", r, 0, NoReply, "none")

\* the step is a callback that sent its POST and was suspended in slot h
EntrySuspend(h) == handlers[h].pc = "idle" /\ handlers'[h].pc = "awaiting"

\* the step is the suspended callback h resumed by its reply
ReplyStep(h) == handlers[h].pc = "awaiting" /\ handlers'[h].pc = "idle"

\* the step is a callback entered with the state string st and no error
\* parameter, which is what reaches state validation
CallbackWithState(st) ==
    \/ \E r \in {cur'.req} : EntryReturn(r) /\ r.state = st /\ ~Truthy(r.error)
    \/ \E h \in Slots : EntrySuspend(h) /\ handlers'[h].req.state = st

\* the step passed the validation of state_id: it went on to the code check
PassedValidation(state_id) ==
    /\ validated'[state_id] = validated[state_id] + 1
    /\ \/ EntryReturn(cur'.req) /\ resp' = MissingCodePage
       \/ \E h \in Slots : EntrySuspend(h)

\* the kind of error of a state string against the table: "none" when valid
StateError(st, table) ==
    IF ~SplitOk(st) THEN "MalformedInput"
    ELSE IF SplitId(st) \notin DOMAIN table THEN "NotFound"
    ELSE IF table[SplitId(st)].value # SplitValue(st) THEN "Mismatch"
    ELSE "none"

RECURSIVE SumOver(_, _)
SumOver(f, keys) ==
    IF keys = {} THEN 0
    ELSE LET k == CHOOSE x \in keys : TRUE IN f[k] + SumOver(f, keys \ {k})

\* ------------------------------------------------------------------ claims

\* C1: for every issued state, a callback presenting the correct
\* "state_id:secret_value" pair passes state validation exactly once: the
\* first one is accepted, every later one is rejected as an unknown state.
C1_ConsumeOnce ==
    [][\A id \in DOMAIN issued :
          /\ validated'[id] <= 1
          /\ CallbackWithState(FormatState(id, issued[id])) =>
                IF validated[id] = 0
                  THEN PassedValidation(id) /\ id \notin DOMAIN states'
                  ELSE /\ resp' = InvalidStatePage
                       /\ UNCHANGED <<states, validated, posts, tokens, handlers>>]_vars

\* a replayed callback: the correct pair of a state that was already used
C1_Witness ==
    /\ cur.op = "callback"
    /\ ~Truthy(cur.req.error)
    /\ \E id \in DOMAIN issued :
          /\ cur.req.state = FormatState(id, issued[id])
          /\ validated[id] = 1
    /\ resp = InvalidStatePage

\* C2: a callback with the correct state_id and a wrong secret_value is
\* rejected as a mismatch and the entry of that state_id is removed from
\* the table.
C2_MismatchRemoves ==
    [][\A id \in DOMAIN states : \A r \in {cur'.req} :
          (/\ EntryReturn(r)
           /\ ~Truthy(r.error)
           /\ StateError(r.state, states) = "Mismatch"
           /\ SplitId(r.state) = id)
          => resp' = InvalidStatePage /\ id \notin DOMAIN states']_vars

\* C3: a POST to the token endpoint is made only by a callback that passed
\* state validation; a callback whose state is missing, malformed, unknown
\* or carries a wrong secret makes no POST and writes no token record, and
\* a token record is written only by a callback resumed from its POST.
C3_PostOnlyAfterValidation ==
    [][/\ posts' # posts =>
            /\ posts' = posts + 1
            /\ \E h \in Slots :
                  /\ EntrySuspend(h)
                  /\ ~Truthy(handlers'[h].req.error)
                  /\ TruthyState(handlers'[h].req.state)
                  /\ StateError(handlers'[h].req.state, states) = "none"
       /\ \A r \in {cur'.req} :
            (/\ EntryReturn(r)
             /\ (~TruthyState(r.state) \/ StateError(r.state, states) # "none"))
            => UNCHANGED <<posts, tokens, handlers>>
       /\ tokens' # tokens =>
            \E h \in Slots :
                /\ ReplyStep(h)
                /\ handlers[h].sent >= 1
                /\ validated[SplitId(handlers[h].req.state)] >= 1]_vars

\* a callback with a wrong secret for a pending state was turned away and
\* nothing was posted
C3_Witness ==
    /\ cur.op = "callback"
    /\ ~Truthy(cur.req.error)
    /\ StateError(cur.req.state, states) = "Mismatch"
    /\ resp = InvalidStatePage
    /\ posts = 0

\* C4: within one callback at most one POST is sent, whatever its outcome;
\* so no more POSTs are ever sent than callbacks passed validation.
C4_NoRetry ==
    /\ \A h \in Slots : handlers[h].sent <= 1
    /\ cur.sent <= 1
    /\ posts <= SumOver(validated, DOMAIN validated)

\* a callback whose POST failed in transport has returned, after one POST
C4_Witness ==
    /\ cur.op = "callback"
    /\ cur.reply.transport = "failed"
    /\ cur.sent = 1
    /\ posts = 1

\* the callback that has just returned was resumed by a reply of HTTP 200
\* whose body is an object with status 'ok' and a non-empty access_token
ExchangeSucceeded ==
    /\ cur.op = "callback"
    /\ cur.reply.transport = "ok"
    /\ cur.reply.body.kind = "object"
    /\ IsSuccess(cur.reply.status, cur.reply.body)
    /\ Truthy(cur.reply.body.access_token)

\* the response is the success page showing the access token `token`
ShowsToken(page, token) ==
    /\ page.kind = "html"
    /\ page.title = "Authentication Successful"
    /\ page.success # <<>>
    /\ page.error = <<>>
    /\ page.shown[1] = token

\* C5: when the exchange succeeded and writing the token record fails, the
\* response still shows the access token; a persistence failure does not
\* turn a successful exchange into an error outcome.
C5_TokenShownDespiteWriteFailure ==
    (ExchangeSucceeded /\ cur.write \in {"open_fails", "dump_fails"})
        => ShowsToken(resp, cur.reply.body.access_token)

\* C6: token records are immutable: every successful exchange creates a
\* record under a key no earlier record uses, and no callback changes a
\* record an earlier successful exchange wrote.
C6_RecordsImmutable ==
    [][\A h \in Slots :
          (ReplyStep(h) /\ ShowsToken(resp', cur'.reply.body.access_token))
          => /\ \E k \in DOMAIN tokens' \ DOMAIN tokens : tokens'[k] = cur'.reply.body
             /\ \A k \in DOMAIN tokens : tokens'[k] = tokens[k]]_vars

\* C7: the three kinds of state error (NotFound, Mismatch, MalformedInput)
\* end in one and the same user-facing page, the generic security failure.
C7_StateErrorsIndistinguishable ==
    [][\A r \in {cur'.req} :
          (/\ EntryReturn(r)
           /\ ~Truthy(r.error)
           /\ TruthyState(r.state)
           /\ StateError(r.state, states) # "none")
          => resp' = InvalidStatePage]_vars

\* C8: happy path: a callback with no provider error, a valid state, a
\* non-empty code and a reply of HTTP 200, status 'ok' and a non-empty
\* access_token ends in the success page showing exactly that token, and
\* the full response body is written as a token record.
C8_HappyPath ==
    [][\A h \in Slots :
          (/\ ReplyStep(h)
           /\ cur'.reply.transport = "ok"
           /\ cur'.reply.body.kind = "object"
           /\ IsSuccess(cur'.reply.status, cur'.reply.body)
           /\ Truthy(cur'.reply.body.access_token))
          => /\ ShowsToken(resp', cur'.reply.body.access_token)
             /\ \E k \in DOMAIN tokens' :
                   /\ tokens'[k] = cur'.reply.body
                   /\ \A j \in DOMAIN tokens' \ {k} :
                         j \in DOMAIN tokens /\ tokens'[j] = tokens[j]]_vars

\* C9: a reply with HTTP status other than 200, or with a body whose status
\* field is not 'ok', ends in the Rejected outcome, whose message is the
\* body's 'message' if present and the generic fallback otherwise, also when
\* the body carries no usable fields; no token record is written.
C9_Rejected ==
    [][\A h \in Slots :
          (/\ ReplyStep(h)
           /\ cur'.reply.transport = "ok"
           /\ \/ cur'.reply.status # 200
              \/ cur'.reply.body.kind = "object" /\ cur'.reply.body.s # "ok")
          => /\ resp'.title = "API Error"
             /\ resp'.shown = <<ErrorMessage(cur'.reply.body)>>
             /\ resp'.error = <<"API error: ", ErrorMessage(cur'.reply.body)>>
             /\ tokens' = tokens]_vars

\* C10: a reply of HTTP 200 with status 'ok' and no access_token (absent or
\* empty) ends in the error page of the missing token, never in the success
\* page, and no token record is written.
C10_MalformedSuccess ==
    [][\A h \in Slots :
          (/\ ReplyStep(h)
           /\ cur'.reply.transport = "ok"
           /\ cur'.reply.body.kind = "object"
           /\ IsSuccess(cur'.reply.status, cur'.reply.body)
           /\ ~Truthy(cur'.reply.body.access_token))
          => /\ resp' = ExceptionPage(NoAccessTokenError)
             /\ resp'.success = <<>>
             /\ tokens' = tokens]_vars

\* a callback got 'ok' with an empty access_token and returned the error
C10_Witness ==
    /\ cur.op = "callback"
    /\ cur.reply.status = 200
    /\ cur.reply.body.s = "ok"
    /\ cur.reply.body.access_token = ""
    /\ resp = ExceptionPage(NoAccessTokenError)

\* the response is an error page: an error banner and no success banner
IsErrorPage(page) ==
    page.kind = "html" /\ page.error # <<>> /\ page.success = <<>>

\* C11: when the POST fails in transport, the callback returns an error
\* page, writes no token record and leaves the table without the state it
\* took; a state once taken never comes back into the table, and a callback
\* presenting a state that is not in the table is turned away at state
\* validation, so the same callback repeated is rejected.
C11_TransportFailure ==
    [][/\ \A h \in Slots :
            (ReplyStep(h) /\ cur'.reply.transport = "failed")
            => /\ IsErrorPage(resp')
               /\ resp'.title = "Error"
               /\ tokens' = tokens
               /\ states' = states
               /\ SplitId(handlers[h].req.state) \notin DOMAIN states'
               /\ posts' = posts
       /\ \A id \in DOMAIN issued :
            id \notin DOMAIN states => id \notin DOMAIN states'
       /\ \A id \in DOMAIN issued :
            (id \notin DOMAIN states
             /\ CallbackWithState(FormatState(id, issued[id])))
            => /\ resp' = InvalidStatePage
               /\ UNCHANGED <<states, validated, posts, tokens, handlers>>]_vars

\* a callback whose POST failed in transport has returned its error page;
\* its state is out of the table and no token record exists
C11_Witness ==
    /\ cur.op = "callback"
    /\ cur.reply.transport = "failed"
    /\ resp = ExceptionPage("transport error")
    /\ SplitId(cur.req.state) \in DOMAIN issued
    /\ SplitId(cur.req.state) \notin DOMAIN states
    /\ tokens = <<>>

\* C12: the code in the POST's body is the value of auth_code whenever
\* auth_code is non-empty, also when code is given too, and the value of
\* code otherwise; a callback with both absent or empty sends no POST.
C12_CodeSelection ==
    [][/\ \A h \in Slots :
            EntrySuspend(h)
            => /\ handlers'[h].payload.code =
                     IF handlers'[h].req.auth_code \notin {None, ""}
                       THEN handlers'[h].req.auth_code
                       ELSE handlers'[h].req.code
               /\ handlers'[h].payload.code \notin {None, ""}
       /\ \A r \in {cur'.req} :
            (EntryReturn(r) /\ r.auth_code \in {None, ""} /\ r.code \in {None, ""})
            => UNCHANGED <<posts, handlers, tokens>>]_vars

\* a POST in flight for a callback that gave both parameters: it carries
\* the value of auth_code
C12_Witness ==
    \E h \in Slots :
        /\ handlers[h].pc = "awaiting"
        /\ handlers[h].req.code = "c1"
        /\ handlers[h].req.auth_code = "c2"
        /\ handlers[h].payload.code = "c2"

\* C13: a callback that carries a provider error code returns the
\* provider-error page showing that code and its description, whatever its
\* state, code and auth_code are; it sends no POST, writes no token record
\* and is never suspended.
C13_ProviderError ==
    [][/\ \A h \in Slots :
            EntrySuspend(h) => handlers'[h].req.error \in {None, ""}
       /\ \A r \in {cur'.req} :
            (EntryReturn(r) /\ r.error \notin {None, ""})
            => /\ IsErrorPage(resp')
               /\ resp'.title = "Authentication Error"
               /\ resp'.shown = <<r.error, r.error_description>>
               /\ resp'.error = <<"Fyers error: ", r.error>>
               /\ UNCHANGED <<posts, tokens, handlers>>]_vars

\* a callback with a provider error, the correct pair of a pending state
\* and both code parameters has returned the provider-error page
C13_Witness ==
    /\ cur.op = "callback"
    /\ cur.req.error = "access_denied"
    /\ cur.req.code = "c1"
    /\ cur.req.auth_code = "c2"
    /\ StateError(cur.req.state, states) = "none"
    /\ resp.title = "Authentication Error"
    /\ resp.shown = <<"access_denied", "user denied">>
    /\ posts = 0

\* the response is a page rendered by get_base_html with a banner
IsRenderedPage(page) ==
    /\ page.kind = "html"
    /\ page.title # None
    /\ page.error # <<>> \/ page.success # <<>>

\* C14: every callback returns a rendered page: for every combination of
\* its parameters the callback can be run, for every reply (transport
\* failure, any status, any body) and every outcome of the file write the
\* suspended callback can be resumed, and each step in which a callback
\* returns leaves a rendered page as the response.
C14_AlwaysRendersPage ==
    /\ [](app = "serving" /\ resp = NoResponse =>
            /\ \A c \in CodeInputs, state \in StateInputs, e \in ErrorInputs :
                  ENABLED callback(c[1], c[2], state, e[1], e[2])
            /\ \A h \in Slots : handlers[h].pc = "awaiting" =>
                  \A reply \in Replies : ENABLED callback_reply(h, reply))
    /\ [][/\ (cur'.op = "callback" /\ cur' # cur) => IsRenderedPage(resp')
          /\ \A h \in Slots : ReplyStep(h) =>
                /\ cur'.op = "callback"
                /\ cur'.write \in WriteOutcomes \cup {"none"}
                /\ IsRenderedPage(resp')]_vars

\* a callback whose token file could not be written has returned a page
C14_Witness ==
    /\ cur.op = "callback"
    /\ cur.write = "dump_fails"
    /\ IsRenderedPage(resp)

\* C15: when the client id, the client secret or the redirect URI is unset
\* or empty once the settings are read, the process has failed at its
\* import; a process that is not serving has no table entry, has handled no
\* login and no callback, and a failed process takes no further step; so a
\* serving process always has the three settings.
C15_StartupFatal ==
    /\ []((/\ app # "importing"
           /\ \/ config.APP_ID \in {None, ""}
              \/ config.SECRET_KEY \in {None, ""}
              \/ config.REDIRECT_URI \in {None, ""})
          => app = "failed")
    /\ [](app # "serving" =>
            /\ states = <<>> /\ issued = <<>> /\ tokens = <<>> /\ posts = 0
            /\ cur = NoCall /\ resp = NoResponse
            /\ \A h \in Slots : handlers[h] = IdleSlot)
    /\ [][app # "failed"]_vars

\* the process failed at its import: the redirect URI was set but empty
C15_Witness ==
    /\ app = "failed"
    /\ config.APP_ID = "app"
    /\ config.SECRET_KEY = "key"
    /\ config.REDIRECT_URI = ""

\* the digest of '<client_id>:<client_secret>' for the process's settings
ExpectedChecksum == <<"sha256", config.APP_ID, ":", config.SECRET_KEY>>

\* C16: every POST carries the body {grant_type: 'authorization_code',
\* appIdHash: the digest of '<client_id>:<client_secret>', code: the code
\* selected from the request}; the digest is the same in every POST of the
\* process, whatever code and state the callback presented.
C16_ExchangeBody ==
    /\ [](\A h \in Slots : handlers[h].pc = "awaiting" =>
            /\ handlers[h].payload.grant_type = "authorization_code"
            /\ handlers[h].payload.appIdHash = ExpectedChecksum
            /\ handlers[h].payload.code \in {handlers[h].req.code,
                                             handlers[h].req.auth_code}
            /\ \A g \in Slots : handlers[g].pc = "awaiting" =>
                  handlers[g].payload.appIdHash = handlers[h].payload.appIdHash)
    /\ [][/\ config # NoConfig => config' = config
          /\ \A h \in Slots : EntrySuspend(h) =>
                handlers'[h].payload =
                    [grant_type |-> "authorization_code",
                     appIdHash |-> ExpectedChecksum,
                     code |-> IF handlers'[h].req.auth_code \notin {None, ""}
                                THEN handlers'[h].req.auth_code
                                ELSE handlers'[h].req.code]]_vars

\* two POSTs in flight, for different states and different codes, carry
\* the same checksum
C16_Witness ==
    \E h, g \in Slots :
        /\ handlers[h].pc = "awaiting" /\ handlers[g].pc = "awaiting"
        /\ handlers[h].req.state # handlers[g].req.state
        /\ handlers[h].payload.code # handlers[g].payload.code
        /\ handlers[h].payload.appIdHash = handlers[g].payload.appIdHash
        /\ handlers[h].payload.appIdHash = <<"sha256", "app", ":", "key">>

\* C17: under every interleaving of logins, callbacks and suspended
\* callbacks, no state passes validation twice, each POST is sent in the
\* step that validates a state for the first time (so one POST per issued
\* state at most), every issued state that no callback has validated is
\* in the table with the secret it was issued with, and an entry changes
\* only in a callback that presents its own correct pair.
C17_TableNotCorrupted ==
    /\ [](/\ DOMAIN states \subseteq DOMAIN issued
          /\ \A id \in DOMAIN issued :
                /\ validated[id] <= 1
                /\ validated[id] = 0 <=> id \in DOMAIN states
                /\ id \in DOMAIN states => states[id].value = issued[id]
          /\ posts <= Cardinality({id \in DOMAIN issued : validated[id] = 1}))
    /\ [][/\ posts' # posts =>
                /\ posts' = posts + 1
                /\ \E id \in DOMAIN issued :
                      /\ validated[id] = 0 /\ validated'[id] = 1
                      /\ EntrySuspend(SlotOf(id))
                      /\ handlers'[SlotOf(id)].req.state = FormatState(id, issued[id])
          /\ \A id \in DOMAIN states :
                ~CallbackWithState(FormatState(id, issued[id]))
                => id \in DOMAIN states' /\ states'[id] = states[id]]_vars

\* while a callback is suspended at its POST, a second callback with the
\* same correct state was turned away, and the entry of another login is
\* still in the table
C17_Witness ==
    /\ cur.op = "callback"
    /\ resp = InvalidStatePage
    /\ \E h \in Slots :
          /\ handlers[h].pc = "awaiting"
          /\ handlers[h].req.state = cur.req.state
          /\ ~Truthy(cur.req.error)
          /\ \E id \in DOMAIN states :
                /\ id # SplitId(cur.req.state)
                /\ states[id].value = issued[id]
    /\ posts = 1

\* the state issued as state_id has come back in a callback: a callback
\* validated it, or the callback now returning presented its correct pair
HasComeBack(id) ==
    \/ validated[id] >= 1
    \/ cur.op = "callback" /\ cur.req.state = FormatState(id, issued[id])

\* C18: each login adds exactly one entry to the table and changes no
\* other, entries leave the table only when a callback consumes them, and
\* the table never holds more entries than there are logins in flight,
\* that is, issued states that have not yet come back in a callback.
C18_TableBoundedByInFlight ==
    /\ [](Cardinality(DOMAIN states)
            <= Cardinality({id \in DOMAIN issued : ~HasComeBack(id)}))
    /\ [][/\ (cur'.op = "login" /\ cur' # cur) =>
                /\ Cardinality(DOMAIN states' \ DOMAIN states) = 1
                /\ \A id \in DOMAIN states :
                      id \in DOMAIN states' /\ states'[id] = states[id]
          /\ \A id \in DOMAIN states :
                id \notin DOMAIN states' => PassedValidation(id)]_vars

\* C19: every callback ends with exactly one response: a callback that is
\* suspended at its POST has returned no response yet, is eventually
\* resumed, and the step that resumes it returns one page for its request;
\* every response is eventually sent.
C19_CallbackCompletes ==
    /\ \A h \in Slots : (handlers[h].pc = "awaiting") ~> (handlers[h].pc = "idle")
    /\ (resp # NoResponse) ~> (resp = NoResponse)
    /\ [][\A h \in Slots :
            /\ EntrySuspend(h) => resp' = NoResponse
            /\ handlers[h].pc = "awaiting" =>
                  \/ handlers'[h] = handlers[h]
                  \/ /\ ReplyStep(h)
                     /\ resp = NoResponse
                     /\ IsRenderedPage(resp')
                     /\ cur'.op = "callback"
                     /\ cur'.req = handlers[h].req]_vars

\* the POST of a suspended callback ended in a transport failure (a
\* timeout among them) and the callback has returned its page
C19_Witness ==
    /\ cur.op = "callback"
    /\ cur.sent = 1
    /\ cur.reply.transport = "failed"
    /\ IsRenderedPage(resp)
    /\ \A h \in Slots : handlers[h].pc = "idle"

\* C20: a callback with a provider error parameter leaves the table as it
\* is, also when it presents the correct pair of a pending state: the entry
\* stays, and any callback without error parameter that presents the correct
\* pair of an entry in the table passes validation.
C20_ErrorLeavesState ==
    [][/\ \A r \in {cur'.req} :
            (EntryReturn(r) /\ r.error \notin {None, ""})
            => /\ states' = states
               /\ validated' = validated
               /\ \A id \in DOMAIN states :
                     r.state = FormatState(id, issued[id])
                     => StateError(r.state, states') = "none"
       /\ \A id \in DOMAIN states :
            (/\ states[id].value = issued[id]
             /\ CallbackWithState(FormatState(id, issued[id])))
            => PassedValidation(id)]_vars

\* a callback with a provider error and the correct pair of a pending
\* state has returned, and the state is still pending
C20_Witness ==
    /\ cur.op = "callback"
    /\ cur.req.error = "access_denied"
    /\ resp = ProviderErrorPage("access_denied", "user denied")
    /\ \E id \in DOMAIN states :
          /\ cur.req.state = FormatState(id, issued[id])
          /\ states[id].value = issued[id]
          /\ validated[id] = 0

\* C21: the state is consumed before the authorization code is checked: a
\* callback with no error parameter, the correct pair of a pending state
\* and neither code nor auth_code takes the state out of the table, sends
\* no POST and returns the missing-code page; the state never comes back
\* into the table, and a later callback presenting it, with a code or
\* without, is turned away at state validation.
C21_ConsumedBeforeCodeCheck ==
    [][/\ \A id \in DOMAIN states : \A r \in {cur'.req} :
            (/\ cur'.op = "callback" /\ cur' # cur
             /\ resp = NoResponse
             /\ r.error \in {None, ""}
             /\ r.state = FormatState(id, issued[id])
             /\ states[id].value = issued[id]
             /\ r.code \in {None, ""} /\ r.auth_code \in {None, ""})
            => /\ id \notin DOMAIN states'
               /\ \A k \in DOMAIN states \ {id} :
                     k \in DOMAIN states' /\ states'[k] = states[k]
               /\ resp' = MissingCodePage
               /\ UNCHANGED <<posts, handlers, tokens>>
       /\ \A id \in DOMAIN issued :
            id \notin DOMAIN states
            => /\ id \notin DOMAIN states'
               /\ CallbackWithState(FormatState(id, issued[id]))
                  => /\ resp' = InvalidStatePage
                     /\ posts' = posts
                     /\ handlers' = handlers]_vars

\* a callback that repeats, now with a code, the state an earlier callback
\* without code had used up (validated, and no POST was ever sent) has been
\* turned away
C21_Witness ==
    /\ cur.op = "callback"
    /\ cur.req.error = None
    /\ cur.req.code = "c1"
    /\ resp = InvalidStatePage
    /\ posts = 0
    /\ \E id \in DOMAIN issued :
          /\ cur.req.state = FormatState(id, issued[id])
          /\ validated[id] = 1
          /\ id \notin DOMAIN states

\* the body of a reply with status 'ok' and a non-empty access_token
IsTokenBody(body) ==
    body.kind = "object" /\ body.s = "ok" /\ body.access_token \notin {None, ""}

\* C22: every token record was written by a callback that had passed state
\* validation and was resumed by a reply of HTTP 200 whose body has status
\* 'ok' and a non-empty access_token: the token files change only in such
\* a step, by one record, which holds that body (or what a failed dump left
\* of it); so there are never more token records than callbacks that passed
\* validation, and never more of those than logins issued.
C22_RecordsFromValidatedSuccess ==
    /\ [](/\ \A k \in DOMAIN tokens :
                IsTokenBody(tokens[k]) \/ tokens[k] = Truncated
          /\ Cardinality(DOMAIN tokens) <= SumOver(validated, DOMAIN validated)
          /\ SumOver(validated, DOMAIN validated) <= Cardinality(DOMAIN issued))
    /\ [][tokens' # tokens =>
            \E h \in Slots :
                /\ ReplyStep(h)
                /\ \A g \in Slots \ {h} : handlers'[g] = handlers[g]
                /\ handlers[h].req.error \in {None, ""}
                /\ SplitId(handlers[h].req.state) \in DOMAIN issued
                /\ SplitValue(handlers[h].req.state)
                      = issued[SplitId(handlers[h].req.state)]
                /\ validated[SplitId(handlers[h].req.state)] >= 1
                /\ cur'.reply.transport = "ok"
                /\ cur'.reply.status = 200
                /\ IsTokenBody(cur'.reply.body)
                /\ \E k \in DOMAIN tokens' :
                      /\ tokens'[k] \in {cur'.reply.body, Truncated}
                      /\ \A j \in DOMAIN tokens' \ {k} :
                            j \in DOMAIN tokens /\ tokens'[j] = tokens[j]
                      /\ DOMAIN tokens \subseteq DOMAIN tokens']_vars

\* as many token records as logins: every login's callback passed
\* validation, got its token and wrote a record of its own
C22_Witness ==
    /\ Cardinality(DOMAIN tokens) = MaxLogins
    /\ Cardinality(DOMAIN issued) = MaxLogins
    /\ \A id \in DOMAIN issued : validated[id] = 1
    /\ \A k \in DOMAIN tokens : IsTokenBody(tokens[k])
    /\ cur.op = "callback"
    /\ cur.write = "ok"

====
